---- MODULE Spec2Model ----
(***************************************************************************)
(* Model of the BPF simulator tools/bpf_sim.c: the loader loop of main,    *)
(* the execution engine bpf_execute, the action decoder end_action and the *)
(* exit paths exit_fault / exit_error.                                     *)
(*                                                                         *)
(* Unsigned 32-bit quantities (k, acc, ip) are kept as pairs of 16-bit     *)
(* halves [hi, lo] so that the arithmetic keeps its width: additions wrap  *)
(* modulo 2^32 and comparisons are unsigned.                               *)
(***************************************************************************)
EXTENDS Integers, Sequences, FiniteSets

VARIABLES
    pc,           \* position of the process: "parse", "start", "load", "exec", "exit"
    opt_machine,  \* static opt_machine: 32 or 64
    opt_verbose,  \* static opt_verbose: 0 or 1
    sys_data,     \* struct bpf_syscall_data seen as bytes (sys_data_b)
    file,         \* the instruction stream behind fd
    fpos,         \* file offset of fd, in bytes
    bpf_prg,      \* struct bpf_program: [i_cnt, i]
    ip,           \* bpf_execute: unsigned int ip
    ip_c,         \* bpf_execute: unsigned int ip_c
    state,        \* bpf_execute: struct sim_state [acc, temp]
    bpf,          \* bpf_execute: index of the instruction bpf points to
    out,          \* what was written to stdout
    err,          \* what was written to stderr
    status,       \* exit status of the process, "running" before exit
    cause,        \* arguments of the exit_fault / exit_error call taken
    rd,           \* offsets of sys_data_b that have been read
    argv,         \* main: the options of the command line, in order
    optind,       \* getopt: position of the next option in argv
    opt_arg_flag, \* main: unsigned int opt_arg_flag
    opt_file,     \* main: char *opt_file, "NULL" or "set"
    stored        \* the stores into sys_data.args: [idx, width, val]

\* what the parsing of the command line works on
cliVars == <<argv, optind, opt_arg_flag, opt_file, stored>>

vars == <<pc, opt_machine, opt_verbose, sys_data, file, fpos, bpf_prg,
          ip, ip_c, state, bpf, out, err, status, cause, rd,
          argv, optind, opt_arg_flag, opt_file, stored>>

----------------------------------------------------------------------------
(* Bounds of the model *)

\* longest explicitly enumerated instruction prefix of a stream
MaxLen == 2

----------------------------------------------------------------------------
(* Program constants *)

BPF_PRG_MAX_LEN == 4096

\* bpf.h: sizes of the record and of the machine state
BPF_SYSCALL_MAX_32 == 28
BPF_SYSCALL_MAX_64 == 52
BPF_SCRATCH_SIZE == 6

\* bpf.h: sizeof(struct bpf_instr), packed {u16 op, u8 jt, u8 jf, u32 k}
InstrSize == 8

\* bpf.h: opcode fields of the classic BPF encoding
BPF_LD == 0
BPF_JMP == 5
BPF_RET == 6
BPF_W == 0
BPF_ABS == 32
BPF_IND == 64
BPF_JA == 0
BPF_JEQ == 16
BPF_JGT == 32
BPF_JGE == 48
BPF_K == 0

----------------------------------------------------------------------------
(* uint32_t arithmetic on [hi, lo] halves *)

Half == 2^16

U32(n) == [hi |-> n \div Half, lo |-> n % Half]

U32Of(h, l) == [hi |-> h, lo |-> l]

\* a + b modulo 2^32
U32Add(a, b) ==
    LET l == a.lo + b.lo
        h == a.hi + b.hi + (l \div Half)
    IN  [hi |-> h % Half, lo |-> l % Half]

\* unsigned a < b
U32Lt(a, b) == \/ a.hi < b.hi
               \/ a.hi = b.hi /\ a.lo < b.lo

U32Gt(a, b) == U32Lt(b, a)

U32Ge(a, b) == ~U32Lt(a, b)

\* unsigned comparison of a 32-bit value with a small natural number
U32LtNat(a, n) == a.hi = 0 /\ a.lo < n

\* a & 0xffff0000, a & 0x0000ffff
MaskHi(a) == [hi |-> a.hi, lo |-> 0]

MaskLo(a) == [hi |-> 0, lo |-> a.lo]

----------------------------------------------------------------------------
(* Instructions and their on-disk bytes (little endian, packed) *)

Instr(op, jt, jf, k) == [op |-> op, jt |-> jt, jf |-> jf, k |-> k]

\* a slot of the calloc'ed buffer
ZeroInstr == Instr(0, 0, 0, U32(0))

EncInstr(b) ==
    << b.op % 256, b.op \div 256, b.jt, b.jf,
       b.k.lo % 256, b.k.lo \div 256, b.k.hi % 256, b.k.hi \div 256 >>

DecInstr(s) ==
    Instr(s[1] + 256 * s[2], s[3], s[4],
          U32Of(s[7] + 256 * s[8], s[5] + 256 * s[6]))

Min(a, b) == IF a < b THEN a ELSE b

----------------------------------------------------------------------------
(* The inputs: instruction streams and syscall records *)

OP_LD_ABS == BPF_LD + BPF_W + BPF_ABS
OP_LD_IND == BPF_LD + BPF_W + BPF_IND
OP_JA == BPF_JMP + BPF_JA
OP_JEQ == BPF_JMP + BPF_JEQ + BPF_K
OP_JGT == BPF_JMP + BPF_JGT + BPF_K
OP_JGE == BPF_JMP + BPF_JGE + BPF_K
OP_RET == BPF_RET + BPF_K

\* 0xffffffff
U32Max == U32Of(Half - 1, Half - 1)

\* 0x00000000 KILL, 0x00020000 TRAP, 0x00030000 and 0x0003ffff ERRNO,
\* 0x7fff0000 ALLOW, and values that match none of them
RetKs == { U32Of(0, 0), U32Of(2, 0), U32Of(3, 0), U32Of(3, Half - 1),
           U32Of(32767, 0),
           U32Of(2, 1), U32Of(4, 0), U32Max }

\* offsets around the end of the 32-bit and of the 64-bit record
LoadKs == { U32(0), U32(BPF_SYSCALL_MAX_32 - 1), U32(BPF_SYSCALL_MAX_32),
            U32(BPF_SYSCALL_MAX_64 - 1), U32(BPF_SYSCALL_MAX_64),
            U32Of(1, 0) }

\* forwards by 0 and by 1; 0xffffffff and 0xfffffffe, which wrap the pointer
JaKs == { U32(0), U32(1), U32Max, U32Of(Half - 1, Half - 2) }

\* with the accumulator 0, 5 or 200: above it, equal to it, below it
JmpKs == { U32(5), U32Max }

\* <<jt, jf>>
JmpOffs == { <<1, 0>>, <<0, 255>> }

Instrs ==
    { Instr(OP_RET, 0, 0, k) : k \in RetKs }
    \cup { Instr(OP_LD_ABS, 0, 0, k) : k \in LoadKs }
    \cup { Instr(OP_JA, 0, 0, k) : k \in JaKs }
    \cup { Instr(op, o[1], o[2], k) :
             op \in {OP_JEQ, OP_JGT, OP_JGE}, o \in JmpOffs, k \in JmpKs }
    \cup { Instr(OP_LD_IND, 0, 0, U32(0)) }

\* the record every stream repeats after its enumerated prefix
Filler == Instr(OP_JA, 0, 0, U32(0))

\* the record a trailing partial record is the beginning of
TailInstr == Instr(OP_RET, 0, 0, U32Of(32767, 0))

SeqsUpTo(S, n) == UNION { [1..m -> S] : m \in 0..n }

\* a stream: n complete records (the prefix recs, then Filler) and then
\* tail bytes of one more record
ShortFiles ==
    { [recs |-> r, n |-> Len(r), tail |-> 0] : r \in SeqsUpTo(Instrs, MaxLen) }
    \cup { [recs |-> r, n |-> Len(r), tail |-> 3] :
              r \in SeqsUpTo(Instrs, MaxLen - 1) }

LongFiles ==
    { [recs |-> <<>>, n |-> m, tail |-> 0] :
        m \in { BPF_PRG_MAX_LEN - 1, BPF_PRG_MAX_LEN, BPF_PRG_MAX_LEN + 1 } }
    \cup { [recs |-> <<>>, n |-> BPF_PRG_MAX_LEN - 1, tail |-> 3] }

FileSize(f) == InstrSize * f.n + f.tail

FileRecord(f, j) ==
    IF j < Len(f.recs) THEN f.recs[j + 1]
    ELSE IF j < f.n THEN Filler
    ELSE TailInstr

FileByte(f, p) == EncInstr(FileRecord(f, p \div InstrSize))[(p % InstrSize) + 1]

\* the bytes of struct bpf_syscall_data
SysDataSize == BPF_SYSCALL_MAX_64

RecA == [o \in 0..(SysDataSize - 1) |-> IF o = 0 THEN 5 ELSE 0]

RecB == [o \in 0..(SysDataSize - 1) |-> IF o = 0 THEN 200 ELSE o]

\* the outcomes of the command line: width, verbosity and record
Envs == { <<32, 0, RecA>>, <<32, 1, RecB>>, <<64, 1, RecA>>, <<64, 0, RecB>> }

----------------------------------------------------------------------------
(* The instruction buffer bpf_prg.i: calloc(BPF_PRG_MAX_LEN, ...).  Only   *)
(* the slots written so far are stored; every other slot is still zero.    *)

SlotAt(i, j) == IF j < Len(i) THEN i[j + 1] ELSE ZeroInstr

WriteSlot(i, j, b) ==
    IF j < Len(i) THEN [i EXCEPT ![j + 1] = b]
    ELSE i \o [x \in 1..(j - Len(i)) |-> ZeroInstr] \o <<b>>

----------------------------------------------------------------------------
(* exit_fault, exit_error: print the tier to stderr and exit *)

exit_fault(rc) ==
    /\ err' = Append(err, IF opt_verbose = 1 THEN <<"FAULT", rc>>
                                              ELSE <<"FAULT">>)
    /\ status' = "EFAULT"
    /\ cause' = <<"exit_fault", rc>>
    /\ pc' = "exit"
    /\ out' = out

exit_error(rc, line) ==
    /\ err' = Append(err, IF opt_verbose = 1 THEN <<"ERROR", rc, line>>
                                              ELSE <<"ERROR">>)
    /\ status' = "ENOEXEC"
    /\ cause' = <<"exit_error", rc, line>>
    /\ pc' = "exit"
    /\ out' = out

----------------------------------------------------------------------------
(* main: allocation of the buffer, open and the loader loop *)

Init ==
    /\ pc = "start"
    /\ \E e \in Envs : /\ opt_machine = e[1]
                       /\ opt_verbose = e[2]
                       /\ sys_data = e[3]
    /\ file \in ShortFiles \cup LongFiles
    /\ file \in LongFiles => opt_machine = 32 /\ opt_verbose = 0
    /\ fpos = 0
    /\ bpf_prg = [i_cnt |-> 0, i |-> <<>>]
    /\ ip = U32(0)
    /\ ip_c = U32(0)
    /\ state = [acc |-> U32(0), temp |-> [x \in 0..(BPF_SCRATCH_SIZE - 1) |-> 0]]
    /\ bpf = -1
    /\ out = <<>>
    /\ err = <<>>
    /\ status = "running"
    /\ cause = <<>>
    /\ rd = {}
    /\ argv = <<>>
    /\ optind = 1
    /\ opt_arg_flag = (IF sys_data = RecA THEN 0 ELSE 1)
    /\ opt_file = "set"
    /\ stored = {}

\* calloc returns NULL
AllocFail ==
    /\ pc = "start"
    /\ UNCHANGED cliVars
    /\ exit_fault("ENOMEM")
    /\ UNCHANGED <<opt_machine, opt_verbose, sys_data, file, fpos, bpf_prg,
                   ip, ip_c, state, bpf, rd>>

\* open fails
OpenFail ==
    /\ pc = "start"
    /\ UNCHANGED cliVars
    /\ exit_fault("errno")
    /\ UNCHANGED <<opt_machine, opt_verbose, sys_data, file, fpos, bpf_prg,
                   ip, ip_c, state, bpf, rd>>

OpenOk ==
    /\ pc = "start"
    /\ opt_file # "NULL"
    /\ UNCHANGED cliVars
    /\ pc' = "load"
    /\ bpf_prg' = [i_cnt |-> 0, i |-> <<>>]
    /\ fpos' = 0
    /\ UNCHANGED <<opt_machine, opt_verbose, sys_data, file,
                   ip, ip_c, state, bpf, out, err, status, cause, rd>>

\* read(fd, buf, InstrSize) on a regular file: everything that is left, up
\* to InstrSize bytes
ReadLen == Min(InstrSize, FileSize(file) - fpos)

\* the slot after read() stored len bytes at its beginning
Overlay(old, len) ==
    DecInstr([x \in 1..InstrSize |->
                IF x <= len THEN FileByte(file, fpos + x - 1)
                ELSE EncInstr(old)[x]])

\* the loader without its check of the size
TooBig_Never(cnt) == FALSE

\* the check of the size letting a full buffer pass
TooBig_Gt(cnt) == cnt > BPF_PRG_MAX_LEN

\* the check of the size after a read
TooBig(cnt) == cnt = BPF_PRG_MAX_LEN

\* one iteration of the do-while loop of the loader, read() returning len
LoadIter(len) ==
    /\ pc = "load"
    /\ UNCHANGED cliVars
    /\ LET slot == bpf_prg.i_cnt
           buf == IF len > 0
                  THEN WriteSlot(bpf_prg.i, slot,
                                 Overlay(SlotAt(bpf_prg.i, slot), len))
                  ELSE bpf_prg.i
           cnt == IF len = InstrSize THEN slot + 1 ELSE slot
       IN  /\ fpos' = fpos + len
           /\ bpf_prg' = [i_cnt |-> cnt, i |-> buf]
           /\ IF TooBig(cnt)
              THEN /\ exit_fault("E2BIG")
                   /\ UNCHANGED <<ip, ip_c, state, bpf>>
              ELSE IF len > 0
              THEN UNCHANGED <<pc, out, err, status, cause, ip, ip_c, state, bpf>>
              ELSE \* close(fd); bpf_execute(): initialize the machine state
                   /\ pc' = "exec"
                   /\ ip_c' = U32(0)
                   /\ ip' = U32(0)
                   /\ state' = [acc |-> U32(0),
                                temp |-> [x \in 0..(BPF_SCRATCH_SIZE - 1) |-> 0]]
                   /\ UNCHANGED <<bpf, out, err, status, cause>>
    /\ UNCHANGED <<opt_machine, opt_verbose, sys_data, file, rd>>

\* the iteration when the stream is a regular file
LoadRead(len) ==
    /\ len = ReadLen
    /\ LoadIter(len)

Load == \E len \in 0..InstrSize : LoadRead(len)

\* the iteration when read() returns fewer bytes than the stream has left
\* (a pipe, a FIFO, a read interrupted by a signal)
LoadShort == \E len \in 1..(ReadLen - 1) : LoadIter(len)

----------------------------------------------------------------------------
(* end_action: decode the return value *)

\* decoders with a slip: the errno printed unmasked; the mask applied to
\* the TRAP test as well
ActionLabel_NoMask(action) ==
    IF action = U32Of(0, 0) THEN <<"KILL">>
    ELSE IF action = U32Of(2, 0) THEN <<"TRAP">>
    ELSE IF MaskHi(action) = U32Of(3, 0)
    THEN <<"ERRNO", action.hi * Half + action.lo>>
    ELSE IF action = U32Of(32767, 0) THEN <<"ALLOW">>
    ELSE <<>>

ActionLabel_TrapMask(action) ==
    IF action = U32Of(0, 0) THEN <<"KILL">>
    ELSE IF MaskHi(action) = U32Of(2, 0) THEN <<"TRAP">>
    ELSE IF MaskHi(action) = U32Of(3, 0) THEN <<"ERRNO", MaskLo(action).lo>>
    ELSE IF action = U32Of(32767, 0) THEN <<"ALLOW">>
    ELSE <<>>

\* the label end_action prints for the value, <<>> when it prints none
ActionLabel(action) ==
    IF action = U32Of(0, 0) THEN <<"KILL">>
    ELSE IF action = U32Of(2, 0) THEN <<"TRAP">>
    ELSE IF MaskHi(action) = U32Of(3, 0) THEN <<"ERRNO", MaskLo(action).lo>>
    ELSE IF action = U32Of(32767, 0) THEN <<"ALLOW">>
    ELSE <<>>

\* end_action without its final exit(0)
end_action_NoExit(action, line) ==
    IF ActionLabel(action) # <<>>
    THEN /\ out' = Append(out, ActionLabel(action))
         /\ UNCHANGED <<status, cause, pc, err>>
    ELSE exit_error("EDOM", line)

end_action(action, line) ==
    IF ActionLabel(action) # <<>>
    THEN /\ out' = Append(out, ActionLabel(action))
         /\ status' = "0"
         /\ cause' = <<"exit", "0">>
         /\ pc' = "exit"
         /\ err' = err
    ELSE exit_error("EDOM", line)

----------------------------------------------------------------------------
(* bpf_execute: one iteration of the while loop per action *)

\* the loop condition with <= for <
Running_Le ==
    /\ pc = "exec"
    /\ ip.hi = 0
    /\ ip.lo <= bpf_prg.i_cnt

\* the loop condition ip < prg->i_cnt
Running == pc = "exec" /\ U32LtNat(ip, bpf_prg.i_cnt)

\* the instruction bpf = &prg->i[ip++] points to
Cur == SlotAt(bpf_prg.i, ip.lo)

\* the value of ip after ip++
IpNext == U32Add(ip, U32(1))

\* the bounds check without the test of the width
InRange_AnyWidth(k) == U32LtNat(k, BPF_SYSCALL_MAX_64)

\* the bounds check of BPF_LD+BPF_W+BPF_ABS
InRange(k) ==
    \/ opt_machine = 32 /\ U32LtNat(k, BPF_SYSCALL_MAX_32)
    \/ opt_machine = 64 /\ U32LtNat(k, BPF_SYSCALL_MAX_64)

\* the load of the 32-bit word at offset k instead of the byte
SysByte_Word(k) ==
    IF U32LtNat(k, SysDataSize - 3)
    THEN { sys_data[k.lo] + 256 * sys_data[k.lo + 1]
             + Half * (sys_data[k.lo + 2] + 256 * sys_data[k.lo + 3]) }
    ELSE 0..255

\* the values sys_data_b[k] can yield: the byte of the record, or any byte
\* when k lies outside the object
SysByte(k) ==
    IF U32LtNat(k, SysDataSize) THEN { sys_data[k.lo] } ELSE 0..255

JeqCond(k, acc) == k = acc

\* the comparison the other way round
JgtCond_Rev(k, acc) == U32Gt(acc, k)

JgtCond(k, acc) == U32Gt(k, acc)

JgeCond(k, acc) == U32Ge(k, acc)

\* the conditional jump taken from the instruction itself, without the ip++
Branch_NoBump(cond, b) == U32Add(ip, U32(IF cond THEN b.jt ELSE b.jf))

\* the target of a conditional jump
Branch(cond, b) == U32Add(IpNext, U32(IF cond THEN b.jt ELSE b.jf))

Fetch ==
    /\ Running
    /\ ip_c' = ip
    /\ bpf' = ip.lo

ExecLoadAbs ==
    /\ Fetch
    /\ UNCHANGED cliVars
    /\ Cur.op = OP_LD_ABS
    /\ ip' = IpNext
    /\ IF InRange(Cur.k)
       THEN /\ \E b \in SysByte(Cur.k) : state' = [state EXCEPT !.acc = U32(b)]
            /\ rd' = rd \cup { Cur.k }
            /\ UNCHANGED <<pc, out, err, status, cause>>
       ELSE /\ exit_error("ERANGE", ip_c')
            /\ UNCHANGED <<state, rd>>
    /\ UNCHANGED <<opt_machine, opt_verbose, sys_data, file, fpos, bpf_prg>>

\* the jump taken from the instruction itself, without the ip++
ExecJa_NoBump ==
    /\ Running
    /\ UNCHANGED cliVars
    /\ ip_c' = ip
    /\ bpf' = ip.lo
    /\ SlotAt(bpf_prg.i, ip.lo).op = OP_JA
    /\ ip' = U32Add(ip, SlotAt(bpf_prg.i, ip.lo).k)
    /\ UNCHANGED <<pc, opt_machine, opt_verbose, sys_data, file, fpos, bpf_prg,
                   state, out, err, status, cause, rd>>

\* k taken as the index to jump to
ExecJa_Abs ==
    /\ Running
    /\ UNCHANGED cliVars
    /\ ip_c' = ip
    /\ bpf' = ip.lo
    /\ SlotAt(bpf_prg.i, ip.lo).op = OP_JA
    /\ ip' = SlotAt(bpf_prg.i, ip.lo).k
    /\ UNCHANGED <<pc, opt_machine, opt_verbose, sys_data, file, fpos, bpf_prg,
                   state, out, err, status, cause, rd>>

ExecJa ==
    /\ Fetch
    /\ UNCHANGED cliVars
    /\ Cur.op = OP_JA
    /\ ip' = U32Add(IpNext, Cur.k)
    /\ UNCHANGED <<pc, opt_machine, opt_verbose, sys_data, file, fpos, bpf_prg,
                   state, out, err, status, cause, rd>>

\* the comparison leaving its operand in the accumulator
ExecJeq_Acc ==
    /\ Fetch
    /\ UNCHANGED cliVars
    /\ Cur.op = OP_JEQ
    /\ ip' = Branch(JeqCond(Cur.k, state.acc), Cur)
    /\ state' = [state EXCEPT !.acc = Cur.k]
    /\ UNCHANGED <<pc, opt_machine, opt_verbose, sys_data, file, fpos, bpf_prg,
                   out, err, status, cause, rd>>

ExecJeq ==
    /\ Fetch
    /\ UNCHANGED cliVars
    /\ Cur.op = OP_JEQ
    /\ ip' = Branch(JeqCond(Cur.k, state.acc), Cur)
    /\ UNCHANGED <<pc, opt_machine, opt_verbose, sys_data, file, fpos, bpf_prg,
                   state, out, err, status, cause, rd>>

ExecJgt ==
    /\ Fetch
    /\ UNCHANGED cliVars
    /\ Cur.op = OP_JGT
    /\ ip' = Branch(JgtCond(Cur.k, state.acc), Cur)
    /\ UNCHANGED <<pc, opt_machine, opt_verbose, sys_data, file, fpos, bpf_prg,
                   state, out, err, status, cause, rd>>

ExecJge ==
    /\ Fetch
    /\ UNCHANGED cliVars
    /\ Cur.op = OP_JGE
    /\ ip' = Branch(JgeCond(Cur.k, state.acc), Cur)
    /\ UNCHANGED <<pc, opt_machine, opt_verbose, sys_data, file, fpos, bpf_prg,
                   state, out, err, status, cause, rd>>

\* a return of the accumulator instead of k
ExecRet_Acc ==
    /\ Running
    /\ UNCHANGED cliVars
    /\ ip_c' = ip
    /\ bpf' = ip.lo
    /\ SlotAt(bpf_prg.i, ip.lo).op = OP_RET
    /\ ip' = U32Add(ip, U32(1))
    /\ end_action(state.acc, ip_c')
    /\ UNCHANGED <<opt_machine, opt_verbose, sys_data, file, fpos, bpf_prg,
                   state, rd>>

ExecRet ==
    /\ Fetch
    /\ UNCHANGED cliVars
    /\ Cur.op = OP_RET
    /\ ip' = IpNext
    /\ end_action(Cur.k, ip_c')
    /\ UNCHANGED <<opt_machine, opt_verbose, sys_data, file, fpos, bpf_prg,
                   state, rd>>

\* the opcodes the switch has a case for
Supported == { OP_LD_ABS, OP_JA, OP_JEQ, OP_JGT, OP_JGE, OP_RET }

\* the default case treated as a program error
ExecDefault_Error ==
    /\ Running
    /\ UNCHANGED cliVars
    /\ ip_c' = ip
    /\ bpf' = ip.lo
    /\ SlotAt(bpf_prg.i, ip.lo).op \notin Supported
    /\ ip' = U32Add(ip, U32(1))
    /\ exit_error("EOPNOTSUPP", ip_c')
    /\ UNCHANGED <<opt_machine, opt_verbose, sys_data, file, fpos, bpf_prg,
                   state, rd>>

ExecDefault ==
    /\ Fetch
    /\ UNCHANGED cliVars
    /\ Cur.op \notin Supported
    /\ ip' = IpNext
    /\ exit_fault("EOPNOTSUPP")
    /\ UNCHANGED <<opt_machine, opt_verbose, sys_data, file, fpos, bpf_prg,
                   state, rd>>

\* the end of the loop reported as a fault; reported with ip for ip_c
ExecOverrun_Fault ==
    /\ pc = "exec"
    /\ UNCHANGED cliVars
    /\ ~Running
    /\ exit_fault("ERANGE")
    /\ UNCHANGED <<opt_machine, opt_verbose, sys_data, file, fpos, bpf_prg,
                   ip, ip_c, state, bpf, rd>>

ExecOverrun_Ip ==
    /\ pc = "exec"
    /\ UNCHANGED cliVars
    /\ ~Running
    /\ exit_error("ERANGE", ip)
    /\ UNCHANGED <<opt_machine, opt_verbose, sys_data, file, fpos, bpf_prg,
                   ip, ip_c, state, bpf, rd>>

\* the loop ends without a return: exit_error(ERANGE, ip_c)
ExecOverrun ==
    /\ pc = "exec"
    /\ UNCHANGED cliVars
    /\ ~Running
    /\ exit_error("ERANGE", ip_c)
    /\ UNCHANGED <<opt_machine, opt_verbose, sys_data, file, fpos, bpf_prg,
                   ip, ip_c, state, bpf, rd>>

Next ==
    \/ AllocFail
    \/ OpenFail
    \/ OpenOk
    \/ Load
    \/ ExecLoadAbs
    \/ ExecJa
    \/ ExecJeq
    \/ ExecJgt
    \/ ExecJge
    \/ ExecRet
    \/ ExecDefault
    \/ ExecOverrun

Spec == Init /\ [][Next]_vars

\* the runs on the streams of the enumerated prefixes
InitFair == Init /\ file \in ShortFiles

\* the process is sequential and never waits: it takes its next step
SpecFair == InitFair /\ [][Next]_vars /\ WF_vars(Next)

\* one record of every kind the engine tells apart
PipeInstrs ==
    { Instr(OP_RET, 0, 0, U32(0)), TailInstr,
      Instr(OP_LD_ABS, 0, 0, U32(0)), Instr(OP_LD_IND, 0, 0, U32(0)),
      Instr(OP_JA, 0, 0, U32(1)) }
    \cup { Instr(op, 1, 0, U32(5)) : op \in {OP_JEQ, OP_JGT, OP_JGE} }

\* the streams that are read through a pipe
PipeFiles == { f \in ShortFiles : \A x \in 1..Len(f.recs) : f.recs[x] \in PipeInstrs }

InitShort == Init /\ file \in PipeFiles /\ opt_machine = 32 /\ opt_verbose = 1

NextShort == Next \/ LoadShort

\* the runs in which read() may return short
SpecShort == InitShort /\ [][NextShort]_vars

----------------------------------------------------------------------------
(* main: the getopt loop over the command line *)

\* number of options on an enumerated command line
MaxArgs == 3

\* sizeof(long), the type strtol returns
LongSize == 8

\* offset of the member args in struct bpf_syscall_data
ArgsOff == 4

\* the value strtol returns, as its bytes, lowest first
LongOf(n) == [x \in 1..LongSize |-> IF x = 1 THEN n ELSE 0]

ArgVal == [x \in 1..LongSize |-> 17 * x]

\* the conversion of a long to unsigned int
UIntOf(v) == v[1] + 256 * v[2] + Half * (v[3] + 256 * v[4])

\* the options getopt returns with their arguments
Options ==
    { [opt |-> "m", arg |-> LongOf(w)] : w \in {32, 64, 16} }
    \cup { [opt |-> o, arg |-> LongOf(0)] : o \in {"f", "h", "v"} }
    \cup { [opt |-> "s", arg |-> LongOf(5)] }
    \cup { [opt |-> o, arg |-> ArgVal] : o \in {"0", "5"} }

ArgOpts == {"0", "1", "2", "3", "4", "5"}

ArgIdx(o) ==
    CASE o = "0" -> 0 [] o = "1" -> 1 [] o = "2" -> 2
      [] o = "3" -> 3 [] o = "4" -> 4 [] o = "5" -> 5

\* streams of one record
CliFiles == { [recs |-> <<i>>, n |-> 1, tail |-> 0] : i \in PipeInstrs }

exit_usage ==
    /\ err' = Append(err, <<"usage">>)
    /\ status' = "EINVAL"
    /\ cause' = <<"exit_usage">>
    /\ pc' = "exit"
    /\ out' = out

InitCli ==
    /\ pc = "parse"
    /\ opt_machine = 32
    /\ opt_verbose = 0
    /\ sys_data = [o \in 0..(SysDataSize - 1) |-> 0]
    /\ file \in CliFiles
    /\ fpos = 0
    /\ bpf_prg = [i_cnt |-> 0, i |-> <<>>]
    /\ ip = U32(0)
    /\ ip_c = U32(0)
    /\ state = [acc |-> U32(0), temp |-> [x \in 0..(BPF_SCRATCH_SIZE - 1) |-> 0]]
    /\ bpf = -1
    /\ out = <<>>
    /\ err = <<>>
    /\ status = "running"
    /\ cause = <<>>
    /\ rd = {}
    /\ argv \in SeqsUpTo(Options, MaxArgs)
    /\ optind = 1
    /\ opt_arg_flag = 0
    /\ opt_file = "NULL"
    /\ stored = {}

\* getopt returns the option at optind
Getopt(opts) ==
    /\ pc = "parse"
    /\ optind <= Len(argv)
    /\ argv[optind].opt \in opts
    /\ optind' = optind + 1
    /\ UNCHANGED <<argv, file, fpos, bpf_prg, ip, ip_c, state, bpf, rd>>

optarg == argv[optind].arg

\* case 'f': strdup returns the copy or NULL
ParseF ==
    /\ Getopt({"f"})
    /\ \/ /\ opt_file' = "set"
          /\ UNCHANGED <<pc, out, err, status, cause>>
       \/ /\ opt_file' = "NULL"
          /\ exit_fault("ENOMEM")
    /\ UNCHANGED <<opt_machine, opt_verbose, sys_data, opt_arg_flag, stored>>

\* case 'm' without its test of opt_arg_flag
OptArgFlagSet_Never == FALSE

\* case 'm': if (opt_arg_flag)
OptArgFlagSet == opt_arg_flag # 0

\* case 'm'
ParseM ==
    /\ Getopt({"m"})
    /\ IF OptArgFlagSet
       THEN /\ exit_usage
            /\ UNCHANGED opt_machine
       ELSE /\ opt_machine' = UIntOf(optarg)
            /\ IF opt_machine' # 32 /\ opt_machine' # 64
               THEN exit_usage
               ELSE UNCHANGED <<pc, out, err, status, cause>>
    /\ UNCHANGED <<opt_verbose, sys_data, opt_arg_flag, opt_file, stored>>

\* case 's': sys_data.sys, an int32_t at offset 0
ParseS ==
    /\ Getopt({"s"})
    /\ sys_data' = [o \in DOMAIN sys_data |->
                      IF o < ArgsOff THEN optarg[o + 1] ELSE sys_data[o]]
    /\ UNCHANGED <<pc, out, err, status, cause, opt_machine, opt_verbose,
                   opt_arg_flag, opt_file, stored>>

\* case 'v'
ParseV ==
    /\ Getopt({"v"})
    /\ opt_verbose' = 1
    /\ UNCHANGED <<pc, out, err, status, cause, opt_machine, sys_data,
                   opt_arg_flag, opt_file, stored>>

\* args.m32[i] or args.m64[i] = v: the element of w bits at index i
StoreArg(rec, w, i, v) ==
    LET size == w \div 8
        base == ArgsOff + size * i
    IN  [o \in DOMAIN rec |->
           IF o >= base /\ o < base + size THEN v[o - base + 1] ELSE rec[o]]

\* case '0' .. case '5'
ParseArg ==
    /\ Getopt(ArgOpts)
    /\ opt_arg_flag' = 1
    /\ LET i == ArgIdx(argv[optind].opt)
       IN  IF opt_machine \in {32, 64}
           THEN /\ sys_data' = StoreArg(sys_data, opt_machine, i, optarg)
                /\ stored' = { t \in stored : t.idx # i }
                               \cup { [idx |-> i, width |-> opt_machine,
                                       val |-> optarg] }
                /\ UNCHANGED <<pc, out, err, status, cause>>
           ELSE /\ exit_fault("EINVAL")
                /\ UNCHANGED <<sys_data, stored>>
    /\ UNCHANGED <<opt_machine, opt_verbose, opt_file>>

\* case 'h' and default
ParseH ==
    /\ Getopt({"h"})
    /\ exit_usage
    /\ UNCHANGED <<opt_machine, opt_verbose, sys_data, opt_arg_flag,
                   opt_file, stored>>

\* getopt returns -1: the loop is left
ParseEnd ==
    /\ pc = "parse"
    /\ optind > Len(argv)
    /\ pc' = "start"
    /\ UNCHANGED <<opt_machine, opt_verbose, sys_data, file, fpos, bpf_prg,
                   ip, ip_c, state, bpf, out, err, status, cause, rd, cliVars>>

NextCli ==
    \/ ParseF
    \/ ParseM
    \/ ParseS
    \/ ParseV
    \/ ParseArg
    \/ ParseH
    \/ ParseEnd
    \/ Next

\* the runs from the command line on
SpecCli == InitCli /\ [][NextCli]_vars

----------------------------------------------------------------------------
(* What the properties below speak about *)

\* an instruction has been fetched
Dispatched == bpf # -1

\* the instruction fetched last
Last == SlotAt(bpf_prg.i, bpf)

\* the process has exited through exit_error(rc, line)
ErrorExit(rc, line) ==
    /\ pc = "exit"
    /\ status = "ENOEXEC"
    /\ cause = <<"exit_error", rc, line>>
    /\ out = <<>>
    /\ Len(err) = 1
    /\ err[1][1] = "ERROR"

\* the process has exited through exit_fault(rc)
FaultExit(rc) ==
    /\ pc = "exit"
    /\ status = "EFAULT"
    /\ cause = <<"exit_fault", rc>>
    /\ out = <<>>
    /\ Len(err) = 1
    /\ err[1][1] = "FAULT"

\* the process has printed the label and exited with status 0
LabelExit(label) ==
    /\ pc = "exit"
    /\ status = "0"
    /\ out = <<label>>
    /\ err = <<>>

\* the run has ended by dispatching a return instruction
ReturnDone == pc = "exit" /\ Dispatched /\ Last.op = OP_RET

K_KILL == U32Of(0, 0)
K_TRAP == U32Of(2, 0)
K_ALLOW == U32Of(32767, 0)

\* C1: a RETURN-K(k) ends the run with status 0 and the label KILL for
\* k = 0x00000000, TRAP for 0x00020000, ERRNO(k & 0xffff) for
\* (k & 0xffff0000) = 0x00030000 and ALLOW for 0x7fff0000, exactly one label.
C1_ActionDecoding ==
    ReturnDone =>
        /\ Last.k = K_KILL => LabelExit(<<"KILL">>)
        /\ Last.k = K_TRAP => LabelExit(<<"TRAP">>)
        /\ Last.k.hi = 3 => LabelExit(<<"ERRNO", Last.k.lo>>)
        /\ Last.k = K_ALLOW => LabelExit(<<"ALLOW">>)

C1_Witness ==
    /\ ReturnDone
    /\ Last.k = U32Of(3, Half - 1)
    /\ out = << <<"ERRNO", 65535>> >>

\* C2: a RETURN-K(k) whose k matches none of the four patterns ends the run
\* in the ERROR tier with EDOM, and no label is printed.
C2_DomainError ==
    (/\ ReturnDone
     /\ Last.k \notin {K_KILL, K_TRAP, K_ALLOW}
     /\ Last.k.hi # 3)
    => ErrorExit("EDOM", U32(bpf))

C2_Witness ==
    /\ ReturnDone
    /\ Last.k = U32Of(2, 1)
    /\ ErrorExit("EDOM", U32(bpf))

\* the maximum valid offset of the selected width
MaxOffset == IF opt_machine = 32 THEN BPF_SYSCALL_MAX_32 ELSE BPF_SYSCALL_MAX_64

\* C3: when the instruction pointer is at or beyond the program length at
\* the loop test, the run ends at once in the ERROR tier with ERANGE; it
\* prints no label and does not exit with status 0.
C3_Overrun ==
    [][ (pc = "exec" /\ ~(ip.hi = 0 /\ ip.lo < bpf_prg.i_cnt))
        => /\ ErrorExit("ERANGE", ip_c)'
           /\ ip' = ip ]_vars

C3_Witness ==
    /\ ErrorExit("ERANGE", ip_c)
    /\ Dispatched
    /\ Last.op = OP_JA
    /\ ~U32LtNat(ip, bpf_prg.i_cnt)

\* C4: after a LOAD-ABS(k) with k >= MAX of the selected width the run has
\* ended in the ERROR tier with ERANGE; with k < MAX the accumulator holds
\* the byte at offset k of the record; no offset >= MAX is ever read.
C4_LoadAbs ==
    /\ \A k \in rd : k.hi = 0 /\ k.lo < MaxOffset
    /\ (Dispatched /\ Last.op = OP_LD_ABS) =>
          IF Last.k.hi = 0 /\ Last.k.lo < MaxOffset
          THEN /\ state.acc = U32(sys_data[Last.k.lo])
               /\ Last.k \in rd
          ELSE /\ ErrorExit("ERANGE", U32(bpf))
               /\ Last.k \notin rd

C4_Witness ==
    /\ Dispatched
    /\ Last = Instr(OP_LD_ABS, 0, 0, U32(BPF_SYSCALL_MAX_32))
    /\ opt_machine = 32
    /\ ErrorExit("ERANGE", U32(bpf))

\* C5: a stream of more than 4096 complete records ends the loading with
\* the fault E2BIG, and no instruction is fetched in that run.
C5_TooManyRecords ==
    file.n > BPF_PRG_MAX_LEN =>
        /\ pc # "exec"
        /\ ~Dispatched
        /\ out = <<>>
        /\ pc = "exit" =>
              \/ FaultExit("E2BIG")
              \/ fpos = 0 /\ (FaultExit("ENOMEM") \/ FaultExit("errno"))

C5_Witness ==
    /\ file.n = BPF_PRG_MAX_LEN + 1
    /\ FaultExit("E2BIG")

\* C6: a stream of exactly 4096 complete records loads without a fault and
\* is executed.
C6_ExactCapacity ==
    (file.n = BPF_PRG_MAX_LEN /\ file.tail = 0) => ~FaultExit("E2BIG")

\* C7: after a conditional jump fetched at index i the pointer is i+1+jt
\* when the condition holds and i+1+jf otherwise; the condition is k == acc
\* for JUMP-EQ-K, k > acc for JUMP-GT-K, k >= acc for JUMP-GE-K, unsigned.
C7_Taken ==
    CASE Last.op = OP_JEQ -> Last.k.hi = state.acc.hi /\ Last.k.lo = state.acc.lo
      [] Last.op = OP_JGT -> \/ Last.k.hi > state.acc.hi
                             \/ Last.k.hi = state.acc.hi /\ Last.k.lo > state.acc.lo
      [] Last.op = OP_JGE -> \/ Last.k.hi > state.acc.hi
                             \/ Last.k.hi = state.acc.hi /\ Last.k.lo >= state.acc.lo

C7_CondJump ==
    (Dispatched /\ Last.op \in {OP_JEQ, OP_JGT, OP_JGE}) =>
        /\ ip_c = U32(bpf)
        /\ ip.hi = 0
        /\ ip.lo = bpf + 1 + (IF C7_Taken THEN Last.jt ELSE Last.jf)

C7_Witness ==
    /\ Dispatched
    /\ Last.op = OP_JGT
    /\ Last.k = state.acc
    /\ state.acc = U32(5)
    /\ Last.jf # Last.jt
    /\ ip = U32(bpf + 1 + Last.jf)

\* what a run that ended in a return has produced: the name of the label,
\* or ERROR
C8_Outcome == IF out # <<>> THEN out[1][1] ELSE err[1][1]

\* the outcome as a function of the operand of the return alone
C8_Decision(k) ==
    CASE k.hi = 0 /\ k.lo = 0 -> "KILL"
      [] k.hi = 2 /\ k.lo = 0 -> "TRAP"
      [] k.hi = 3 -> "ERRNO"
      [] k.hi = 32767 /\ k.lo = 0 -> "ALLOW"
      [] OTHER -> "ERROR"

C8_RetAllow == Instr(OP_RET, 0, 0, K_ALLOW)

\* C8: the outcome of RETURN-K depends on k alone: [RETURN-K(0x7fff0000)]
\* yields ALLOW for every record and width, [LOAD-ABS(k), RETURN-K(0x7fff0000)]
\* with k in range yields ALLOW whatever byte was loaded, and every run that
\* ends in a return has the outcome its k decides, whatever the accumulator.
C8_ReturnIgnoresState ==
    /\ (/\ pc = "exit"
        /\ Dispatched
        /\ bpf_prg.i_cnt = 1
        /\ SlotAt(bpf_prg.i, 0) = C8_RetAllow)
       => LabelExit(<<"ALLOW">>)
    /\ (/\ pc = "exit"
        /\ Dispatched
        /\ bpf_prg.i_cnt = 2
        /\ SlotAt(bpf_prg.i, 0).op = OP_LD_ABS
        /\ SlotAt(bpf_prg.i, 0).k.hi = 0
        /\ SlotAt(bpf_prg.i, 0).k.lo < MaxOffset
        /\ SlotAt(bpf_prg.i, 1) = C8_RetAllow)
       => /\ LabelExit(<<"ALLOW">>)
          /\ state.acc = U32(sys_data[SlotAt(bpf_prg.i, 0).k.lo])
    /\ ReturnDone =>
          /\ Len(out) + Len(err) = 1
          /\ C8_Outcome = C8_Decision(Last.k)
          /\ (status = "0") = (C8_Decision(Last.k) # "ERROR")

C8_Witness ==
    /\ bpf_prg.i_cnt = 2
    /\ SlotAt(bpf_prg.i, 0) = Instr(OP_LD_ABS, 0, 0, U32(0))
    /\ SlotAt(bpf_prg.i, 1) = C8_RetAllow
    /\ state.acc = U32(200)
    /\ LabelExit(<<"ALLOW">>)

C9_Known == { OP_LD_ABS, OP_JA, OP_JEQ, OP_JGT, OP_JGE, OP_RET }

\* C9: dispatching an instruction whose opcode is none of the six supported
\* ones ends the run in the FAULT tier with EOPNOTSUPP and without a label;
\* that fault occurs only when such an instruction is the one fetched.
C9_Unsupported ==
    /\ (Dispatched /\ Last.op \notin C9_Known) => FaultExit("EOPNOTSUPP")
    /\ (pc = "exit" /\ cause = <<"exit_fault", "EOPNOTSUPP">>)
       => Dispatched /\ Last.op \notin C9_Known

C9_Witness ==
    /\ Dispatched
    /\ Last.op = OP_LD_IND
    /\ FaultExit("EOPNOTSUPP")

\* one outcome at most, and exactly one once the process has exited
C10_Single ==
    /\ Len(out) + Len(err) <= 1
    /\ (pc = "exit") = (Len(out) + Len(err) = 1)
    /\ (pc = "exit") = (status # "running")
    /\ (status = "0") = (Len(out) = 1)

\* C10: each run produces exactly one outcome among a label, a FAULT and an
\* ERROR, and the process takes no step after it: nothing is fetched, the
\* machine state does not change, no second outcome is printed.
C10_ExactlyOneOutcome == [] C10_Single /\ [][pc # "exit"]_vars

C10_Witness ==
    /\ ReturnDone
    /\ LabelExit(<<"KILL">>)
    /\ U32LtNat(ip, bpf_prg.i_cnt)

C11_Jumps == { OP_JA, OP_JEQ, OP_JGT, OP_JGE }

\* the run has ended after a jump was the last instruction fetched: the
\* pointer has left the program
C11_OverrunDone == pc = "exit" /\ Dispatched /\ Last.op \in C11_Jumps

\* C11 as stated: an instruction-pointer overrun prints FAULT and exits
\* with the fault status.
C11_OverrunIsFault ==
    C11_OverrunDone => status = "EFAULT" /\ err[1][1] = "FAULT"

\* C11 amended: an instruction-pointer overrun prints ERROR (with ERANGE
\* and the index when verbose) and exits with the error status ENOEXEC.
C11_OverrunIsError ==
    C11_OverrunDone =>
        /\ status = "ENOEXEC"
        /\ out = <<>>
        /\ err = << IF opt_verbose = 1 THEN <<"ERROR", "ERANGE", ip_c>>
                                       ELSE <<"ERROR">> >>
        /\ ~U32LtNat(ip, bpf_prg.i_cnt)

C11_Witness ==
    /\ C11_OverrunDone
    /\ Last.op = OP_JEQ
    /\ opt_verbose = 1
    /\ err = << <<"ERROR", "ERANGE", U32(bpf)>> >>

\* i + 1 + k does not fit in 32 bits
C12_Wraps(i, k) ==
    LET l == ((i + 1) % Half) + k.lo
    IN  ((i + 1) \div Half) + k.hi + (l \div Half) >= Half

\* C12 as stated: after every dispatch the pointer is strictly greater than
\* the index of the instruction fetched.
C12_ForwardOnly == Dispatched => U32Lt(U32(bpf), ip)

\* C12 amended: after a dispatch the pointer is strictly greater than the
\* index i of the instruction fetched, except after a JUMP-ALWAYS whose
\* i + 1 + k reaches 2^32: there the pointer wraps to i + 1 + k - 2^32,
\* which is at most i.
C12_ForwardUnlessWrap ==
    Dispatched =>
        IF Last.op = OP_JA /\ C12_Wraps(bpf, Last.k)
        THEN /\ ip.hi = 0
             /\ ip.lo <= bpf
             /\ ip.lo = bpf + 1 + Last.k.lo - Half
             /\ Last.k.hi = Half - 1
        ELSE \/ ip.hi > 0
             \/ ip.lo > bpf

C12_Witness ==
    /\ Dispatched
    /\ bpf = 1
    /\ Last = Instr(OP_JA, 0, 0, U32Of(Half - 1, Half - 2))
    /\ ip = U32(0)

\* the stream holds no JUMP-ALWAYS with k = 0
C13_NoZeroJump ==
    /\ file.n = Len(file.recs)
    /\ \A j \in 1..Len(file.recs) :
          ~(file.recs[j].op = OP_JA /\ file.recs[j].k = U32(0))

\* the stream holds no JUMP-ALWAYS that wraps the pointer
C13_NoWrappingJump ==
    \A j \in 1..Len(file.recs) :
        ~(file.recs[j].op = OP_JA /\ C12_Wraps(j - 1, file.recs[j].k))

\* C13 as stated: every program without a JUMP-ALWAYS with k = 0 reaches a
\* decision, a FAULT or an ERROR.
C13_Terminates == C13_NoZeroJump => <>(pc = "exit")

\* C13 amended: every program without a JUMP-ALWAYS whose i + 1 + k reaches
\* 2^32 at its index i reaches a decision, a FAULT or an ERROR.
C13_TerminatesUnlessWrap == C13_NoWrappingJump => <>(pc = "exit")

C13_Witness ==
    /\ C13_NoWrappingJump
    /\ Len(file.recs) = MaxLen
    /\ file.recs[1] = Instr(OP_JA, 0, 0, U32(0))
    /\ pc = "exit"
    /\ Dispatched
    /\ bpf = MaxLen - 1

\* C14 as stated: after a JUMP-ALWAYS with k = 0 the same instruction is
\* fetched again and the run has not ended.
C14_ZeroJumpLoops ==
    (Dispatched /\ Last.op = OP_JA /\ Last.k = U32(0)) =>
        ip = U32(bpf) /\ pc = "exec"

\* C14 amended: a JUMP-ALWAYS with k = 0 falls through to the next
\* instruction; it is the JUMP-ALWAYS with k = 0xffffffff that loops: the
\* pointer is back on the same instruction and the run never ends.
C14_MinusOneLoops ==
    /\ (Dispatched /\ Last.op = OP_JA /\ Last.k = U32(0)) =>
          ip = U32(bpf + 1)
    /\ (Dispatched /\ Last.op = OP_JA /\ Last.k = U32Max) =>
          /\ ip = U32(bpf)
          /\ pc = "exec"
          /\ Running
          /\ Cur = Last

C14_Witness ==
    /\ Dispatched
    /\ Last = Instr(OP_JA, 0, 0, U32Max)
    /\ bpf = 1
    /\ ip = U32(1)
    /\ pc = "exec"

----------------------------------------------------------------------------
\* C15: the loader counts only complete records: once a stream of fewer
\* than 4096 complete records is loaded, the program has exactly as many
\* instructions as the stream has complete records, equal in order and
\* content to those records, and no fault or error was raised, whatever
\* sizes the individual reads returned.
C15_Loaded == pc = "exec" /\ ~Dispatched

C15_CompleteRecords ==
    C15_Loaded /\ file.n < BPF_PRG_MAX_LEN =>
        /\ bpf_prg.i_cnt = file.n
        /\ \A j \in 0..(file.n - 1) : SlotAt(bpf_prg.i, j) = FileRecord(file, j)
        /\ err = <<>>
        /\ status = "running"

----------------------------------------------------------------------------
\* a -m option stands after one of the options -0 .. -5
C16_LateM ==
    \E a, b \in 1..Len(argv) :
        a < b /\ argv[a].opt \in ArgOpts /\ argv[b].opt = "m"

UsageExit ==
    /\ pc = "exit"
    /\ status = "EINVAL"
    /\ cause = <<"exit_usage">>
    /\ err = << <<"usage">> >>
    /\ out = <<>>

\* the bytes of the record where a store has put its value
C16_InRecord(t) ==
    \A x \in 0..((t.width \div 8) - 1) :
        sys_data[ArgsOff + (t.width \div 8) * t.idx + x] = t.val[x + 1]

\* C16: a command line with a -m option after one of the options -0 .. -5
\* never gets to the allocation, the loading or the execution: it ends
\* with the usage error (or, before that, with the fault of a failed
\* strdup of an earlier -f); and once the loop over the options is left,
\* every argument value sits in the record under the width in force.
C16_WidthBeforeArgs ==
    /\ C16_LateM =>
          /\ pc \in {"parse", "exit"}
          /\ fpos = 0 /\ bpf_prg.i_cnt = 0 /\ ~Dispatched /\ out = <<>>
          /\ pc = "exit" =>
                \/ UsageExit
                \/ FaultExit("ENOMEM") /\ argv[optind - 1].opt = "f"
    /\ pc \in {"start", "load", "exec"} \/ Dispatched =>
          \A t \in stored : t.width = opt_machine /\ C16_InRecord(t)

C16_Witness ==
    /\ argv = << [opt |-> "0", arg |-> ArgVal],
                 [opt |-> "m", arg |-> LongOf(64)],
                 [opt |-> "f", arg |-> LongOf(0)] >>
    /\ UsageExit
    /\ optind = 3
    /\ opt_arg_flag = 1
    /\ stored = { [idx |-> 0, width |-> 32, val |-> ArgVal] }

----------------------------------------------------------------------------
C17_BigK == Last.k.hi > 0 \/ Last.k.lo > 255

\* C17: the accumulator is in 0..255 in every state; and a conditional
\* jump with k > 255 fetched at index i leaves the pointer at i+1+jf when
\* it is JUMP-EQ-K and at i+1+jt when it is JUMP-GT-K or JUMP-GE-K.
C17_AccIsByte ==
    /\ state.acc.hi = 0
    /\ state.acc.lo \in 0..255
    /\ Dispatched /\ C17_BigK /\ Last.op = OP_JEQ =>
          ip = U32(bpf + 1 + Last.jf)
    /\ Dispatched /\ C17_BigK /\ Last.op \in {OP_JGT, OP_JGE} =>
          ip = U32(bpf + 1 + Last.jt)

C17_Witness ==
    /\ Dispatched
    /\ bpf = 1
    /\ Last.op = OP_JGE
    /\ Last.k = U32Max
    /\ Last.jt = 1 /\ Last.jf = 0
    /\ state.acc = U32(200)
    /\ ip = U32(3)

----------------------------------------------------------------------------
C18_ScratchZero == \A x \in DOMAIN state.temp : state.temp[x] = 0

\* what one step of the engine leaves alone
C18_Step ==
    pc = "exec" =>
        /\ bpf_prg' = bpf_prg
        /\ sys_data' = sys_data
        /\ state'.temp = state.temp
        /\ state'.acc # state.acc =>
              Running /\ Cur.op = OP_LD_ABS /\ InRange(Cur.k)
        /\ Running /\ Cur.op \in C11_Jumps =>
              /\ ip_c' = ip
              /\ bpf' = ip.lo
              /\ UNCHANGED <<pc, opt_machine, opt_verbose, sys_data, file,
                             fpos, bpf_prg, state, out, err, status, cause,
                             rd>>

\* C18: the scratch memory is all zero in every state; a step of the
\* engine leaves the program, the record and the scratch memory as they
\* were; the accumulator changes only in the step of a LOAD-ABS whose
\* offset is in range; the step of a jump changes nothing but the pointer
\* (and, with the fetch, ip_c and bpf).
C18_Frame == [] C18_ScratchZero /\ [][C18_Step]_vars

C18_Witness ==
    /\ pc = "exec"
    /\ Dispatched
    /\ bpf = 1
    /\ Last.op = OP_JEQ
    /\ SlotAt(bpf_prg.i, 0) = Instr(OP_LD_ABS, 0, 0, U32(0))
    /\ state.acc = U32(200)
    /\ C18_ScratchZero
    /\ ip_c = U32(1)

----------------------------------------------------------------------------
\* C19: every slot the loader has written has an index in 0..4095 (while
\* the loader is about to read, the slot it passes to read() is below
\* 4096), and the instruction the engine has fetched has an index strictly
\* below the loaded count.
C19_BufferBounds ==
    /\ Len(bpf_prg.i) <= BPF_PRG_MAX_LEN
    /\ bpf_prg.i_cnt <= BPF_PRG_MAX_LEN
    /\ pc = "load" => bpf_prg.i_cnt < BPF_PRG_MAX_LEN
    /\ Dispatched => bpf >= 0 /\ bpf < bpf_prg.i_cnt

C19_Witness ==
    /\ file.tail > 0
    /\ Len(bpf_prg.i) = BPF_PRG_MAX_LEN
    /\ bpf_prg.i_cnt = BPF_PRG_MAX_LEN - 1
    /\ Dispatched
    /\ bpf = BPF_PRG_MAX_LEN - 2

----------------------------------------------------------------------------
C20_ErrorDone == pc = "exit" /\ status = "ENOEXEC"

\* C20: when a run has ended with ERROR, the index handed to exit_error
\* (and printed when verbose) is ip_c, the index of the instruction fetched
\* last: below the length of the program, and 0 when the program is empty
\* and nothing was fetched; for the range error of a LOAD-ABS and the
\* domain error of a RETURN-K that instruction is the offending one, and
\* for an overrun it is the jump or load dispatched last, not the pointer.
C20_ErrorIndex ==
    C20_ErrorDone =>
        /\ Len(cause) = 3
        /\ cause[1] = "exit_error"
        /\ cause[3] = ip_c
        /\ err = << IF opt_verbose = 1 THEN <<"ERROR", cause[2], ip_c>>
                                       ELSE <<"ERROR">> >>
        /\ IF Dispatched
           THEN /\ ip_c = U32(bpf)
                /\ bpf < bpf_prg.i_cnt
                /\ cause[2] = "EDOM" <=> Last.op = OP_RET
                /\ Last.op \in {OP_RET, OP_LD_ABS} \cup C11_Jumps
                /\ Last.op \in C11_Jumps => ip # ip_c
                /\ Last.op = OP_LD_ABS /\ InRange(Last.k) => ip = U32(bpf + 1)
           ELSE /\ bpf_prg.i_cnt = 0
                /\ ip_c = U32(0)
                /\ cause[2] = "ERANGE"

C20_Witness ==
    /\ C20_ErrorDone
    /\ opt_verbose = 1
    /\ bpf = 1
    /\ Last = Instr(OP_JA, 0, 0, U32(1))
    /\ ip = U32(3)
    /\ err = << <<"ERROR", "ERANGE", U32(1)>> >>
=============================================================================
